---- MODULE Spec2Model ----
(***************************************************************************)
(* Model of the TTL reaper of providers/aws: one pass of                   *)
(* DeleteExpiredLoadBalancers (elb.go) or of DeleteExpiredVPC (vpc.go),    *)
(* or one call of TagVPCsForDeletion (vpc.go),                             *)
(* against a provider whose every call may fail.  The provider is the      *)
(* cloud: what it lists is drawn in Init, what each call answers is drawn  *)
(* when the call is made, and every call is appended to the log `calls'.   *)
(***************************************************************************)
EXTENDS Integers, Sequences, FiniteSets, TLC

\* ------------------------------------------------------------------ bounds
MaxLbs == 2        \* load balancers the provider lists
MaxVpcs == 2       \* containers the provider lists
MaxTags == 2       \* tags the listed containers carry, all together
MaxMembers == 1    \* sub-resources of one category a container owns
MaxTime == 1       \* the clock and the creation times range over 0..MaxTime
MaxFailures == 2   \* provider calls that fail during one pass

\* ----------------------------------------------------------------- strings
\* A Go string is the sequence of its characters.
Digits == {"0", "1", "2", "3", "4", "5", "6", "7", "8", "9"}

DigitVal(c) ==
  CASE c = "0" -> 0 [] c = "1" -> 1 [] c = "2" -> 2 [] c = "3" -> 3
    [] c = "4" -> 4 [] c = "5" -> 5 [] c = "6" -> 6 [] c = "7" -> 7
    [] c = "8" -> 8 [] c = "9" -> 9

RECURSIVE DecimalValue(_)
DecimalValue(s) ==
  IF s = <<>> THEN 0
  ELSE 10 * DecimalValue(SubSeq(s, 1, Len(s) - 1)) + DigitVal(s[Len(s)])

\* strconv.Atoi: an optional sign, then one or more decimal digits.
Atoi(s) ==
  LET signed == s # <<>> /\ s[1] \in {"+", "-"}
      body   == IF signed THEN Tail(s) ELSE s
      ok     == body # <<>> /\ \A k \in 1..Len(body) : body[k] \in Digits
  IN  [ok  |-> ok,
       val |-> IF ~ok THEN 0
               ELSE IF signed /\ s[1] = "-" THEN 0 - DecimalValue(body)
               ELSE DecimalValue(body)]

ToLower(c) ==
  CASE c = "T" -> "t" [] c = "L" -> "l" [] OTHER -> c

\* strings.EqualFold: equality up to the case of the letters.
EqualFold(s, t) ==
  /\ Len(s) = Len(t)
  /\ \A k \in 1..Len(s) : ToLower(s[k]) = ToLower(t[k])

\* utils.CheckIfExpired(creationTime, ttl) read at the instant `at'.
CheckIfExpired(created, ttl, at) ==
  IF ttl < 0 THEN FALSE ELSE at >= created + ttl

\* ------------------------------------------------------------------- state
VARIABLES
  family,            \* "elb" or "vpc": the pass that runs
  pc,                \* the statement the pass is at
  tagName, dryRun,   \* the arguments of the pass
  now,               \* the clock: it stands still during the one pass
  nfail,             \* provider calls that failed so far
  calls,             \* the provider calls issued so far, in order
  ret,               \* what the pass returned: "none" while it runs
  lbCloud,           \* the load balancers the provider holds
  allLoadBalancers,  \* ListLoadBalancers' result
  lbs,               \* listTaggedLoadBalancers' result
  i, j,              \* the indexes of the loops in progress
  vpcCloud,          \* the containers the provider holds
  VPCs,              \* getVPCs' result
  taggedVpc,         \* listTaggedVPC's record of the container at hand
  taggedVPCs,        \* listTaggedVPC's result, deleteVPC's VpcList
  launched,          \* getCompleteVpc: the tasks started so far
  running,           \* getCompleteVpc: the started tasks not yet done
  queries,           \* the sub-resource queries the tasks issued
  answered,          \* getCompleteVpc: what each task's query answered
  stage,             \* deleteVPC, TagVPCsForDeletion: the category at hand
  clusterId, clusterCreationTime, clusterTtl,
                     \* the arguments of TagVPCsForDeletion
  vpcsIds            \* GetVpcsIdsByClusterNameTag's result

elbVars == <<lbCloud, allLoadBalancers, lbs>>
vpcVars == <<vpcCloud, VPCs, taggedVpc, taggedVPCs, launched, running,
             queries, answered, stage>>

tagVars == <<clusterId, clusterCreationTime, clusterTtl, vpcsIds>>

vars == <<family, pc, tagName, dryRun, now, nfail, calls, ret,
          lbCloud, allLoadBalancers, lbs, i, j,
          vpcCloud, VPCs, taggedVpc, taggedVPCs, launched, running,
          queries, answered, stage,
          clusterId, clusterCreationTime, clusterTtl, vpcsIds>>

Call(op, id, sub, ok) == [op |-> op, id |-> id, sub |-> sub, ok |-> ok]

\* The answers a provider call may give: it fails only within the budget.
Answers == IF nfail < MaxFailures THEN BOOLEAN ELSE {TRUE}

Issue(op, id, sub, ok) ==
  /\ calls' = Append(calls, Call(op, id, sub, ok))
  /\ nfail' = IF ok THEN nfail ELSE nfail + 1

\* ------------------------------------------------------------ the provider
Str1 == <<"1">>
StrTtl == <<"t", "t", "l">>

LbTagNames == {Str1, StrTtl}

LbTag(k, v) == [Key |-> k, Value |-> v]

\* The tag lists a load balancer may carry.
LbTagLists ==
  { <<>>,
    <<LbTag(StrTtl, Str1)>>,
    <<LbTag(StrTtl, StrTtl)>>,
    <<LbTag(StrTtl, StrTtl), LbTag(StrTtl, Str1)>>,
    <<LbTag(StrTtl, Str1), LbTag(StrTtl, Str1)>> }

CloudLbs(n) == [1..n -> [CreatedTime : 0..MaxTime, Tags : LbTagLists]]

\* The four categories of sub-resources, in the order deleteVPC and
\* getCompleteVpc name them.
Categories == <<"SecurityGroups", "InternetGateways", "Subnets", "RouteTables">>

\* No task of getCompleteVpc has answered yet.
NoAnswers == [c \in 1..Len(Categories) |-> "none"]

\* The zero value of VpcInfo.
NoVpc ==
  [VpcId |-> 0, SecurityGroups |-> <<>>, InternetGateways |-> <<>>,
   Subnets |-> <<>>, RouteTables |-> <<>>, Status |-> <<>>, TTL |-> 0,
   Tag |-> <<>>]

\* ------------------------------------------------------------------ elb.go
InitELB ==
  /\ family = "elb"
  /\ pc = "ListLoadBalancers"
  /\ tagName \in LbTagNames
  /\ dryRun \in BOOLEAN
  /\ now \in 0..MaxTime
  /\ nfail = 0
  /\ calls = <<>>
  /\ ret = "none"
  /\ \E n \in 0..MaxLbs : lbCloud \in CloudLbs(n)
  /\ allLoadBalancers = <<>>
  /\ lbs = <<>>
  /\ i = 1
  /\ j = 1
  /\ vpcCloud = <<>>
  /\ VPCs = <<>>
  /\ taggedVpc = NoVpc
  /\ taggedVPCs = <<>>
  /\ launched = 0
  /\ running = {}
  /\ queries = {}
  /\ answered = NoAnswers
  /\ stage = 1
  /\ clusterId = <<>>
  /\ clusterCreationTime = 0
  /\ clusterTtl = 0
  /\ vpcsIds = <<>>

\* ListLoadBalancers: one ElasticLoadBalancer per listed load balancer.
ListedLoadBalancers ==
  [k \in 1..Len(lbCloud) |->
     [Arn |-> k, CreatedTime |-> lbCloud[k].CreatedTime, TTL |-> -1]]

\* The listing error dropped: the pass goes on with the empty list.
ListingNeverAborts(ok) == FALSE

\* listTaggedLoadBalancers returns ListLoadBalancers' error, and
\* DeleteExpiredLoadBalancers returns that error in turn.
ListingAborts(ok) == ~ok

\* ListLoadBalancers, and the return of the two callers on its error.
ListLoadBalancers ==
  /\ family = "elb"
  /\ pc = "ListLoadBalancers"
  /\ \E ok \in Answers :
       /\ Issue("DescribeLoadBalancers", 0, 0, ok)
       /\ allLoadBalancers' = IF ok THEN ListedLoadBalancers ELSE <<>>
       /\ IF ListingAborts(ok)
          THEN pc' = "done" /\ ret' = "error"
          ELSE pc' = "DescribeTags" /\ ret' = ret
  /\ i' = 1
  /\ UNCHANGED <<tagVars, family, tagName, dryRun, now, lbCloud, lbs, j, vpcVars>>

\* listTaggedLoadBalancers, the loop over the tags of one load balancer:
\* a tag whose value equals tagName has that value parsed as the TTL.
RECURSIVE TaggedFrom(_, _, _, _)
TaggedFrom(tagged, currentLb, tags, name) ==
  IF tags = <<>> THEN tagged
  ELSE LET contentTag == Head(tags)
           ttl        == Atoi(contentTag.Value)
       IN  IF contentTag.Value = name /\ ttl.ok
           THEN TaggedFrom(Append(tagged, [currentLb EXCEPT !.TTL = ttl.val]),
                           [currentLb EXCEPT !.TTL = ttl.val], Tail(tags), name)
           ELSE TaggedFrom(tagged, currentLb, Tail(tags), name)

\* listTaggedLoadBalancers, one iteration of the loop over allLoadBalancers.
DescribeTags ==
  /\ family = "elb"
  /\ pc = "DescribeTags"
  /\ i <= Len(allLoadBalancers)
  /\ \E ok \in Answers :
       /\ Issue("DescribeTags", allLoadBalancers[i].Arn, 0, ok)
       /\ lbs' = IF ok
                 THEN TaggedFrom(lbs, allLoadBalancers[i],
                                 lbCloud[allLoadBalancers[i].Arn].Tags, tagName)
                 ELSE lbs
  /\ i' = i + 1
  /\ UNCHANGED <<tagVars, family, pc, tagName, dryRun, now, ret, lbCloud,
                 allLoadBalancers, j, vpcVars>>

\* listTaggedLoadBalancers returns its list to DeleteExpiredLoadBalancers.
ListTaggedReturns ==
  /\ family = "elb"
  /\ pc = "DescribeTags"
  /\ i > Len(allLoadBalancers)
  /\ pc' = "CheckIfExpired"
  /\ i' = 1
  /\ UNCHANGED <<tagVars, family, tagName, dryRun, now, nfail, calls, ret, lbCloud,
                 allLoadBalancers, lbs, j, vpcVars>>

\* deleteLoadBalancers' argument, as DeleteExpiredLoadBalancers passes it
\* for the expired load balancer lbs[k].
DeleteArgument(list, k) == list

\* deleteLoadBalancers without its dry-run return.
DeleteReturnsEarlyLive(list, dry) == Len(list) = 0

\* deleteLoadBalancers returns before any call.
DeleteReturnsEarly(list, dry) == dry \/ Len(list) = 0

\* DeleteExpiredLoadBalancers, one iteration of the loop over lbs, up to
\* the first DeleteLoadBalancer call.
DeleteExpiredLoadBalancers ==
  /\ family = "elb"
  /\ pc = "CheckIfExpired"
  /\ i <= Len(lbs)
  /\ IF /\ CheckIfExpired(lbs[i].CreatedTime, lbs[i].TTL, now)
        /\ ~DeleteReturnsEarly(DeleteArgument(lbs, i), dryRun)
     THEN pc' = "DeleteLoadBalancer" /\ j' = 1 /\ i' = i
     ELSE pc' = pc /\ j' = j /\ i' = i + 1
  /\ UNCHANGED <<tagVars, family, tagName, dryRun, now, nfail, calls, ret, lbCloud,
                 allLoadBalancers, lbs, vpcVars>>

\* deleteLoadBalancers leaves its loop after the call on list[k]: the call
\* failed, or list[k] was the last.
DeleteLoopEnds(list, k, ok) == ~ok \/ k >= Len(list)

\* deleteLoadBalancers, one iteration of its loop: a failed call returns
\* the error, which the caller logs before its next iteration.
deleteLoadBalancers ==
  /\ family = "elb"
  /\ pc = "DeleteLoadBalancer"
  /\ \E ok \in Answers :
       /\ Issue("DeleteLoadBalancer", DeleteArgument(lbs, i)[j].Arn, 0, ok)
       /\ IF DeleteLoopEnds(DeleteArgument(lbs, i), j, ok)
          THEN pc' = "CheckIfExpired" /\ i' = i + 1 /\ j' = 1
          ELSE pc' = pc /\ i' = i /\ j' = j + 1
  /\ UNCHANGED <<tagVars, family, tagName, dryRun, now, ret, lbCloud,
                 allLoadBalancers, lbs, vpcVars>>

\* DeleteExpiredLoadBalancers returns nil after its loop.
DeleteExpiredLoadBalancersReturns ==
  /\ family = "elb"
  /\ pc = "CheckIfExpired"
  /\ i > Len(lbs)
  /\ pc' = "done"
  /\ ret' = "nil"
  /\ UNCHANGED <<tagVars, family, tagName, dryRun, now, nfail, calls, lbCloud,
                 allLoadBalancers, lbs, i, j, vpcVars>>

NextELB ==
  \/ ListLoadBalancers
  \/ DescribeTags
  \/ ListTaggedReturns
  \/ DeleteExpiredLoadBalancers
  \/ deleteLoadBalancers
  \/ DeleteExpiredLoadBalancersReturns

SpecELB == InitELB /\ [][NextELB]_vars

\* ------------------------------------------------------------------ vpc.go
StrA == <<"a">>
Str0 == <<"0">>
StrTTL == <<"T", "T", "L">>

VpcTagNames == {StrTtl, <<>>}

Tag(k, v) == [Key |-> k, Value |-> v]

\* The tag lists a container may carry.
VpcTagLists ==
  { <<>>,
    <<Tag(StrTtl, Str1)>>,
    <<Tag(StrTtl, StrA)>>,
    <<Tag(StrTtl, <<>>)>>,
    <<Tag(StrA, StrA), Tag(StrTTL, Str1)>>,
    <<Tag(<<>>, <<>>), Tag(StrTtl, Str0)>> }

VpcStates == {"available", "pending"}

RECURSIVE TagCount(_)
TagCount(cloud) ==
  IF cloud = <<>> THEN 0 ELSE Len(Head(cloud).Tags) + TagCount(Tail(cloud))

\* The containers are created at instant 0, the clock is what varies; a
\* container owns no sub-resource, or MaxMembers of each category.
CloudVpcs(n) ==
  { c \in [1..n -> [State : VpcStates, Tags : VpcTagLists,
                    CreatedTime : {0}, Members : {0, MaxMembers}]] :
      TagCount(c) <= MaxTags }

DeleteOp(c) ==
  CASE c = 1 -> "DeleteSecurityGroup" [] c = 2 -> "DeleteInternetGateway"
    [] c = 3 -> "DeleteSubnet" [] c = 4 -> "DeleteRouteTable"

DescribeOp(c) ==
  CASE c = 1 -> "DescribeSecurityGroups" [] c = 2 -> "DescribeInternetGateways"
    [] c = 3 -> "DescribeSubnets" [] c = 4 -> "DescribeRouteTables"

\* The collection of category c in a VpcInfo.
Field(vpc, c) ==
  CASE c = 1 -> vpc.SecurityGroups [] c = 2 -> vpc.InternetGateways
    [] c = 3 -> vpc.Subnets [] c = 4 -> vpc.RouteTables

SetField(vpc, c, members) ==
  CASE c = 1 -> [vpc EXCEPT !.SecurityGroups = members]
    [] c = 2 -> [vpc EXCEPT !.InternetGateways = members]
    [] c = 3 -> [vpc EXCEPT !.Subnets = members]
    [] c = 4 -> [vpc EXCEPT !.RouteTables = members]

\* The sub-resources of category c the provider holds for container id.
CloudMembers(id, c) == [k \in 1..vpcCloud[id].Members |-> k]

InitVPC ==
  /\ family = "vpc"
  /\ pc = "getVPCs"
  /\ tagName \in VpcTagNames
  /\ dryRun \in BOOLEAN
  /\ now \in {0, MaxTime}
  /\ nfail = 0
  /\ calls = <<>>
  /\ ret = "none"
  /\ lbCloud = <<>>
  /\ allLoadBalancers = <<>>
  /\ lbs = <<>>
  /\ i = 1
  /\ j = 1
  /\ \E n \in 0..MaxVpcs : vpcCloud \in CloudVpcs(n)
  /\ VPCs = <<>>
  /\ taggedVpc = NoVpc
  /\ taggedVPCs = <<>>
  /\ launched = 0
  /\ running = {}
  /\ queries = {}
  /\ answered = NoAnswers
  /\ stage = 1
  /\ clusterId = <<>>
  /\ clusterCreationTime = 0
  /\ clusterTtl = 0
  /\ vpcsIds = <<>>

\* getVPCs: a failed DescribeVpcs is logged and nil is returned.
getVPCs ==
  /\ family = "vpc"
  /\ pc = "getVPCs"
  /\ \E ok \in Answers :
       /\ Issue("DescribeVpcs", 0, 0, ok)
       /\ VPCs' = IF ok THEN [k \in 1..Len(vpcCloud) |-> k] ELSE <<>>
  /\ pc' = "listTaggedVPC"
  /\ i' = 1
  /\ UNCHANGED <<tagVars, family, tagName, dryRun, now, ret, j, elbVars, vpcCloud,
                 taggedVpc, taggedVPCs, launched, running, queries, answered, stage>>

\* listTaggedVPC without its test of the state.
EligibleAnyState(vpc) == Len(vpc.Tags) # 0

\* listTaggedVPC keeps a container: it is available and carries a tag.
Eligible(vpc) == vpc.State = "available" /\ Len(vpc.Tags) # 0

\* listTaggedVPC, the head of one iteration of the loop over VPCs.
listTaggedVPC ==
  /\ family = "vpc"
  /\ pc = "listTaggedVPC"
  /\ i <= Len(VPCs)
  /\ taggedVpc' = [NoVpc EXCEPT !.VpcId = VPCs[i],
                                !.Status = vpcCloud[VPCs[i]].State]
  /\ IF Eligible(vpcCloud[VPCs[i]])
     THEN pc' = "tag" /\ i' = i /\ j' = 1
     ELSE pc' = pc /\ i' = i + 1 /\ j' = j
  /\ UNCHANGED <<tagVars, family, tagName, dryRun, now, nfail, calls, ret, elbVars,
                 vpcCloud, VPCs, taggedVPCs, launched, running, queries, answered, stage>>

\* The loop over the tags of VPCs[i] moves to its next tag, or ends.
NextTag ==
  IF j < Len(vpcCloud[VPCs[i]].Tags)
  THEN pc' = "tag" /\ i' = i /\ j' = j + 1
  ELSE pc' = "listTaggedVPC" /\ i' = i + 1 /\ j' = 1

\* The TTL of the record after tag: a "ttl" key, whatever its case, whose
\* value parses sets it.
WithTTL(vpc, tag) ==
  IF EqualFold(tag.Key, StrTtl) /\ Atoi(tag.Value).ok
  THEN [vpc EXCEPT !.TTL = Atoi(tag.Value).val]
  ELSE vpc

\* The tag is skipped: no sub-resource is resolved and nothing is appended.
SkipsTag(tag, name) == tag.Key = name /\ tag.Key = <<>>

WithTag(vpc, tag, name) ==
  IF tag.Key = name /\ ~SkipsTag(tag, name)
  THEN [vpc EXCEPT !.Tag = tag.Value]
  ELSE vpc

\* listTaggedVPC, one iteration of the loop over the tags, up to the call
\* of getCompleteVpc.
ReadTag ==
  /\ family = "vpc"
  /\ pc = "tag"
  /\ LET tag == vpcCloud[VPCs[i]].Tags[j]
     IN  /\ taggedVpc' = WithTag(WithTTL(taggedVpc, tag), tag, tagName)
         /\ IF SkipsTag(tag, tagName)
            THEN NextTag /\ launched' = launched /\ answered' = answered
            ELSE /\ pc' = "getCompleteVpc" /\ i' = i /\ j' = j
                 /\ launched' = 0 /\ answered' = NoAnswers
  /\ UNCHANGED <<tagVars, family, tagName, dryRun, now, nfail, calls, ret, elbVars,
                 vpcCloud, VPCs, taggedVPCs, running, queries, stage>>

\* getCompleteVpc: waitGroup.Add(1), then go Set...ByVpcId, for the next
\* of the four categories.
GoTask ==
  /\ family = "vpc"
  /\ pc = "getCompleteVpc"
  /\ launched < Len(Categories)
  /\ launched' = launched + 1
  /\ running' = running \cup {launched + 1}
  /\ UNCHANGED <<tagVars, family, pc, tagName, dryRun, now, nfail, calls, ret, i, j,
                 elbVars, vpcCloud, VPCs, taggedVpc, taggedVPCs, queries, answered, stage>>

\* Set...ByVpcId for category c: query the provider, write the collection
\* (empty when the query failed) into the record, waitGroup.Done().
SetIdsByVpcId(c) ==
  /\ family = "vpc"
  /\ c \in running
  /\ \E ok \in Answers :
       /\ queries' = queries \cup {Call(DescribeOp(c), taggedVpc.VpcId, 0, ok)}
       /\ nfail' = IF ok THEN nfail ELSE nfail + 1
       /\ answered' = [answered EXCEPT ![c] = IF ok THEN "ok" ELSE "failed"]
       /\ taggedVpc' = SetField(taggedVpc, c,
                         IF ok THEN CloudMembers(taggedVpc.VpcId, c) ELSE <<>>)
  /\ running' = running \ {c}
  /\ UNCHANGED <<tagVars, family, pc, tagName, dryRun, now, calls, ret, i, j, elbVars,
                 vpcCloud, VPCs, taggedVPCs, launched, stage>>

\* getCompleteVpc without waitGroup.Wait(): it returns once the four tasks
\* are started.
ReturnsUnjoined(started, busy) == started = Len(Categories)

\* waitGroup.Wait() returns: every started task is done.
WaitReturns(started, busy) == started = Len(Categories) /\ busy = {}

\* listTaggedVPC dropping the record when a query of its tasks failed.
AppendsIfResolved(answers) ==
  \A c \in 1..Len(Categories) : answers[c] = "ok"

\* listTaggedVPC appends the record after getCompleteVpc, which returns
\* nothing: whatever the tasks' queries answered.
Appends(answers) == TRUE

\* getCompleteVpc returns and listTaggedVPC appends the record.
Wait ==
  /\ family = "vpc"
  /\ pc = "getCompleteVpc"
  /\ WaitReturns(launched, running)
  /\ taggedVPCs' = IF Appends(answered) THEN Append(taggedVPCs, taggedVpc)
                   ELSE taggedVPCs
  /\ NextTag
  /\ UNCHANGED <<tagVars, family, tagName, dryRun, now, nfail, calls, ret, elbVars,
                 vpcCloud, VPCs, taggedVpc, launched, running, queries, answered, stage>>

\* deleteVPC returns before any call.
DeleteVPCReturnsEarly(VpcList, dry) == dry \/ Len(VpcList) = 0

\* The first category from c on with a member to delete in vpc, or 5: the
\* container itself.
RECURSIVE FromStage(_, _)
FromStage(vpc, c) ==
  IF c <= Len(Categories) /\ Len(Field(vpc, c)) = 0
  THEN FromStage(vpc, c + 1)
  ELSE c

\* listTaggedVPC returns an error: never, getVPCs has kept for itself
\* whether DescribeVpcs answered (described).
ListTaggedVPCFails(described) == FALSE

\* listTaggedVPC returns its list; DeleteExpiredVPC returns an error if
\* listTaggedVPC did, and else passes the list to deleteVPC.
DeleteExpiredVPC ==
  /\ family = "vpc"
  /\ pc = "listTaggedVPC"
  /\ i > Len(VPCs)
  /\ IF ListTaggedVPCFails(calls[1].ok)
     THEN pc' = "done" /\ ret' = "error" /\ stage' = stage
     ELSE IF DeleteVPCReturnsEarly(taggedVPCs, dryRun)
     THEN pc' = "done" /\ ret' = "nil" /\ stage' = stage
     ELSE pc' = "deleteVPC" /\ ret' = ret
          /\ stage' = FromStage(taggedVPCs[1], 1)
  /\ i' = 1
  /\ j' = 1
  /\ UNCHANGED <<tagVars, family, tagName, dryRun, now, nfail, calls, elbVars,
                 vpcCloud, VPCs, taggedVpc, taggedVPCs, launched, running,
                 queries, answered>>

\* Delete...ByIds leaves its loop after the call on members[k]: members[k]
\* was the last, whatever the call answered.
MemberLoopEnds(members, k, ok) == k >= Len(members)

\* deleteVPC's four Delete...ByIds calls, one member at a time: nothing
\* they return is looked at, and the next category follows.
DeleteByIds ==
  /\ family = "vpc"
  /\ pc = "deleteVPC"
  /\ stage <= Len(Categories)
  /\ LET vpc == taggedVPCs[i]
     IN  \E ok \in Answers :
           /\ Issue(DeleteOp(stage), vpc.VpcId, Field(vpc, stage)[j], ok)
           /\ IF MemberLoopEnds(Field(vpc, stage), j, ok)
              THEN stage' = FromStage(vpc, stage + 1) /\ j' = 1
              ELSE stage' = stage /\ j' = j + 1
  /\ UNCHANGED <<tagVars, family, pc, tagName, dryRun, now, ret, i, elbVars, vpcCloud,
                 VPCs, taggedVpc, taggedVPCs, launched, running, queries, answered>>

\* deleteVPC returning DeleteVpc's error instead of logging it.
LoopStopsOnError(VpcList, k, ok) == ok /\ k < Len(VpcList)

\* deleteVPC's loop goes on after the DeleteVpc call on VpcList[k],
\* whatever the call answered: another container follows.
LoopGoesOn(VpcList, k, ok) == k < Len(VpcList)

\* deleteVPC, the end of one iteration of its loop: DeleteVpc, whose error
\* is logged.
DeleteVpc ==
  /\ family = "vpc"
  /\ pc = "deleteVPC"
  /\ stage > Len(Categories)
  /\ \E ok \in Answers :
       /\ Issue("DeleteVpc", taggedVPCs[i].VpcId, 0, ok)
       /\ IF LoopGoesOn(taggedVPCs, i, ok)
          THEN pc' = pc /\ i' = i + 1
               /\ stage' = FromStage(taggedVPCs[i + 1], 1)
          ELSE pc' = "deleteVPCLast" /\ i' = i /\ stage' = 1
  /\ j' = 1
  /\ UNCHANGED <<tagVars, family, tagName, dryRun, now, ret, elbVars, vpcCloud, VPCs,
                 taggedVpc, taggedVPCs, launched, running, queries, answered>>

\* deleteVPC after its loop: DeleteVpc on VpcList[0]; on an error the
\* warning reads VpcList[1], which is out of range in a list of one.
deleteVPCLast ==
  /\ family = "vpc"
  /\ pc = "deleteVPCLast"
  /\ \E ok \in Answers :
       /\ Issue("DeleteVpc", taggedVPCs[1].VpcId, 0, ok)
       /\ ret' = IF ~ok /\ Len(taggedVPCs) < 2 THEN "panic" ELSE "nil"
  /\ pc' = "done"
  /\ UNCHANGED <<tagVars, family, tagName, dryRun, now, i, j, elbVars, vpcVars>>

NextVPC ==
  \/ getVPCs
  \/ listTaggedVPC
  \/ ReadTag
  \/ GoTask
  \/ \E c \in 1..Len(Categories) : SetIdsByVpcId(c)
  \/ Wait
  \/ DeleteExpiredVPC
  \/ DeleteByIds
  \/ DeleteVpc
  \/ deleteVPCLast

SpecVPC == InitVPC /\ [][NextVPC]_vars

\* ------------------------------------------------- vpc.go, the tagging
StrB == <<"b">>
StrClusterName == <<"C", "l", "u", "s", "t", "e", "r", "N", "a", "m", "e">>

ClusterIds == {StrA, StrB}

\* The containers of the clusters: each belongs to no cluster, or carries
\* the ClusterName tag of one.
ClusterVpcs(n) ==
  [1..n -> [State : VpcStates,
            Tags : {<<>>} \cup {<<Tag(StrClusterName, c)>> : c \in ClusterIds},
            CreatedTime : {0}, Members : {0}]]

\* The four categories in the order TagVPCsForDeletion tags them.
TagOp(c) ==
  CASE c = 1 -> "AddCreationDateTagToSG" [] c = 2 -> "AddCreationDateTagToIGW"
    [] c = 3 -> "AddCreationDateTagToSubnets"
    [] c = 4 -> "AddCreationDateTagToRTB"

InitTagging ==
  /\ family = "tag"
  /\ pc = "GetVpcsIdsByClusterNameTag"
  /\ tagName \in VpcTagNames
  /\ dryRun = FALSE
  /\ now = 0
  /\ nfail = 0
  /\ calls = <<>>
  /\ ret = "none"
  /\ lbCloud = <<>>
  /\ allLoadBalancers = <<>>
  /\ lbs = <<>>
  /\ i = 1
  /\ j = 1
  /\ \E n \in 0..MaxVpcs : vpcCloud \in ClusterVpcs(n)
  /\ VPCs = <<>>
  /\ taggedVpc = NoVpc
  /\ taggedVPCs = <<>>
  /\ launched = 0
  /\ running = {}
  /\ queries = {}
  /\ answered = NoAnswers
  /\ stage = 1
  /\ clusterId \in ClusterIds
  /\ clusterCreationTime \in 0..MaxTime
  /\ clusterTtl \in 0..MaxTime
  /\ vpcsIds = <<>>

\* The provider's answer to the filter tag:ClusterName = name: the
\* containers among the first n that carry that tag.
RECURSIVE ClusterMembers(_, _)
ClusterMembers(n, name) ==
  IF n = 0 THEN <<>>
  ELSE LET rest == ClusterMembers(n - 1, name)
       IN  IF \E k \in 1..Len(vpcCloud[n].Tags) :
                vpcCloud[n].Tags[k] = Tag(StrClusterName, name)
           THEN Append(rest, n)
           ELSE rest

\* GetVpcsIdsByClusterNameTag: a failed DescribeVpcs is logged and nil is
\* returned; TagVPCsForDeletion goes on with what it got.
GetVpcsIdsByClusterNameTag ==
  /\ family = "tag"
  /\ pc = "GetVpcsIdsByClusterNameTag"
  /\ \E ok \in Answers :
       /\ Issue("DescribeVpcs", 0, 0, ok)
       /\ vpcsIds' = IF ok THEN ClusterMembers(Len(vpcCloud), clusterId)
                     ELSE <<>>
  /\ pc' = "AddCreationDateTag"
  /\ stage' = 1
  /\ UNCHANGED <<family, tagName, dryRun, now, ret, i, j, elbVars, vpcCloud,
                 VPCs, taggedVpc, taggedVPCs, launched, running, queries,
                 answered, clusterId, clusterCreationTime, clusterTtl>>

\* TagVPCsForDeletion going on to the next category after an error.
ErrorDropped(ok) == FALSE

\* TagVPCsForDeletion returns the error of the AddCreationDateTagTo...
\* call it has just made.
ReturnsErr(ok) == ~ok

\* TagVPCsForDeletion, one of its four AddCreationDateTagTo... calls and
\* the test of what it returned; after the fourth, return nil.
AddCreationDateTag ==
  /\ family = "tag"
  /\ pc = "AddCreationDateTag"
  /\ \E ok \in Answers :
       /\ Issue(TagOp(stage), 0, 0, ok)
       /\ IF ReturnsErr(ok)
          THEN pc' = "done" /\ ret' = "error" /\ stage' = stage
          ELSE IF stage < Len(Categories)
          THEN pc' = pc /\ ret' = ret /\ stage' = stage + 1
          ELSE pc' = "done" /\ ret' = "nil" /\ stage' = stage
  /\ UNCHANGED <<tagVars, family, tagName, dryRun, now, i, j, elbVars,
                 vpcCloud, VPCs, taggedVpc, taggedVPCs, launched, running,
                 queries, answered>>

NextTagging == GetVpcsIdsByClusterNameTag \/ AddCreationDateTag

SpecTagging == InitTagging /\ [][NextTagging]_vars

\* ---------------------------------------------------------------- the pass
Init == InitELB \/ InitVPC

Next == NextELB \/ NextVPC

Spec == Init /\ [][Next]_vars

\* ------------------------------------------------------------ the claims
VpcDeleteOps ==
  {"DeleteSecurityGroup", "DeleteInternetGateway", "DeleteSubnet",
   "DeleteRouteTable", "DeleteVpc"}

DeleteOps == VpcDeleteOps \cup {"DeleteLoadBalancer"}

\* The positions in the log of the calls of op on resource id.
CallsOn(op, id) ==
  {c \in 1..Len(calls) : calls[c].op = op /\ calls[c].id = id}

\* The positions in the log of the delete calls on container id or on one
\* of its sub-resources.
VpcDeletesOn(id) ==
  {c \in 1..Len(calls) : calls[c].op \in VpcDeleteOps /\ calls[c].id = id}

\* The listed load balancer lb is expired at the instant of the pass.
LbExpired(lb) == CheckIfExpired(lb.CreatedTime, lb.TTL, now)

ElbLivePassDone == family = "elb" /\ pc = "done" /\ ret = "nil" /\ ~dryRun

VpcLivePassDone ==
  family = "vpc" /\ pc = "done" /\ ~dryRun /\ taggedVPCs # <<>>

\* C1: in dry-run mode no delete call of any kind is issued, in the load
\* balancer pass and in the container pass, whatever the provider holds and
\* whichever calls fail.
C1_DryRunIssuesNoDelete ==
  dryRun => \A c \in 1..Len(calls) : calls[c].op \notin DeleteOps

\* A dry-run pass that ended with something to delete: an expired load
\* balancer listed, or a container listed.
C1_Witness ==
  /\ dryRun
  /\ pc = "done"
  /\ \/ family = "elb" /\ \E k \in 1..Len(lbs) : LbExpired(lbs[k])
     \/ family = "vpc" /\ taggedVPCs # <<>>

\* C2: in a live load balancer pass whose every call succeeds, each expired
\* load balancer of the listed batch gets exactly one DeleteLoadBalancer
\* call: never two while the pass runs, one when it has ended.  Stated for
\* the batches that list each load balancer once.
C2_OneDeletePerExpired ==
  ( /\ family = "elb"
    /\ ~dryRun
    /\ nfail = 0
    /\ \A a, b \in 1..Len(lbs) : lbs[a].Arn = lbs[b].Arn => a = b ) =>
    \A k \in 1..Len(lbs) :
      LbExpired(lbs[k]) =>
        /\ Cardinality(CallsOn("DeleteLoadBalancer", lbs[k].Arn)) <= 1
        /\ pc = "done" =>
             Cardinality(CallsOn("DeleteLoadBalancer", lbs[k].Arn)) = 1

\* C3: in a live load balancer pass no DeleteLoadBalancer call is issued
\* for a listed load balancer whose TTL has not elapsed.
C3_UnexpiredNeverDeleted ==
  family = "elb" =>
    \A k \in 1..Len(lbs) :
      ~LbExpired(lbs[k]) => CallsOn("DeleteLoadBalancer", lbs[k].Arn) = {}

\* C4: in a live container pass a delete call on a container or on one of
\* its sub-resources is issued only when the expiration evaluator, applied
\* to the container's creation time and a TTL listTaggedVPC decoded for it,
\* returns true.
C4_UnexpiredVpcNotDeleted ==
  family = "vpc" =>
    \A c \in 1..Len(calls) :
      calls[c].op \in VpcDeleteOps =>
        \E k \in 1..Len(taggedVPCs) :
          /\ taggedVPCs[k].VpcId = calls[c].id
          /\ CheckIfExpired(vpcCloud[calls[c].id].CreatedTime,
                            taggedVPCs[k].TTL, now)

\* The place of a delete call in deleteVPC's order.
Rank(op) ==
  CASE op = "DeleteSecurityGroup" -> 1 [] op = "DeleteInternetGateway" -> 2
    [] op = "DeleteSubnet" -> 3 [] op = "DeleteRouteTable" -> 4
    [] op = "DeleteVpc" -> 5

\* C5: the delete calls on one container come in the order security
\* groups, gateways, subnets, route tables, container: no DeleteVpc call
\* for a container precedes a sub-resource delete call for that container.
C5_DeleteOrder ==
  family = "vpc" =>
    \A a, b \in 1..Len(calls) :
      ( /\ a < b
        /\ calls[a].op \in VpcDeleteOps
        /\ calls[b].op \in VpcDeleteOps
        /\ calls[a].id = calls[b].id )
      => Rank(calls[a].op) <= Rank(calls[b].op)

\* The containers of the list are pairwise distinct.
Distinct(VpcList) ==
  \A a, b \in 1..Len(VpcList) :
    VpcList[a].VpcId = VpcList[b].VpcId => a = b

\* C6: given a non-empty list of distinct containers, a live deleteVPC
\* issues exactly one DeleteVpc call per container of the list, the first
\* included, whether the calls succeed or fail.
C6_OneDeleteVpcPerContainer ==
  (VpcLivePassDone /\ Distinct(taggedVPCs)) =>
    \A k \in 1..Len(taggedVPCs) :
      Cardinality(CallsOn("DeleteVpc", taggedVPCs[k].VpcId)) = 1

\* C7: a container that is not available, or that carries no tag, is never
\* returned by listTaggedVPC, never has its sub-resources resolved, and
\* gets no delete call for itself or its sub-resources.
C7_IneligibleExcluded ==
  family = "vpc" =>
    \A v \in 1..Len(vpcCloud) :
      ~(vpcCloud[v].State = "available" /\ Len(vpcCloud[v].Tags) # 0) =>
        /\ \A k \in 1..Len(taggedVPCs) : taggedVPCs[k].VpcId # v
        /\ \A q \in queries : q.id # v
        /\ VpcDeletesOn(v) = {}
        /\ pc \in {"tag", "getCompleteVpc"} => taggedVpc.VpcId # v

\* A live pass that ended after deleting a container, while the provider
\* listed another one, not available, whose TTL tag parses and has elapsed.
C7_Witness ==
  /\ VpcLivePassDone
  /\ \E c \in 1..Len(calls) : calls[c].op = "DeleteVpc"
  /\ \E v \in 1..Len(VPCs) :
       /\ vpcCloud[v].State # "available"
       /\ \E t \in 1..Len(vpcCloud[v].Tags) :
            /\ EqualFold(vpcCloud[v].Tags[t].Key, StrTtl)
            /\ Atoi(vpcCloud[v].Tags[t].Value).ok
            /\ CheckIfExpired(vpcCloud[v].CreatedTime,
                              Atoi(vpcCloud[v].Tags[t].Value).val, now)

\* C8: in a live load balancer pass every expired load balancer of the
\* batch gets at least one delete attempt, whichever delete calls fail.
C8_EveryExpiredAttempted ==
  ElbLivePassDone =>
    \A k \in 1..Len(lbs) :
      LbExpired(lbs[k]) => CallsOn("DeleteLoadBalancer", lbs[k].Arn) # {}

\* The entries of the list for container id whose category c is not empty.
EntriesWith(id, c) ==
  {k \in 1..Len(taggedVPCs) :
     taggedVPCs[k].VpcId = id /\ Field(taggedVPCs[k], c) # <<>>}

EntriesOf(id) == {k \in 1..Len(taggedVPCs) : taggedVPCs[k].VpcId = id}

\* C9: in a live container pass, whichever delete calls fail, every entry
\* of the list has each of its non-empty categories attempted and its
\* DeleteVpc call issued: a failure blocks neither the categories and the
\* DeleteVpc that follow nor the later containers.
C9_FailuresDoNotBlock ==
  VpcLivePassDone =>
    \A v \in 1..Len(vpcCloud) :
      /\ Cardinality(CallsOn("DeleteVpc", v)) >= Cardinality(EntriesOf(v))
      /\ \A c \in 1..Len(Categories) :
           Cardinality(CallsOn(DeleteOp(c), v)) >=
             Cardinality(EntriesWith(v, c))

\* A live pass over two entries that ended after a sub-resource delete
\* and a DeleteVpc failed on the first entry.
C9_Witness ==
  /\ VpcLivePassDone
  /\ Len(taggedVPCs) >= 2
  /\ \E a, b \in 1..Len(calls) :
       /\ a < b
       /\ calls[a].op \in VpcDeleteOps \ {"DeleteVpc"}
       /\ ~calls[a].ok
       /\ calls[b].op = "DeleteVpc"
       /\ ~calls[b].ok
       /\ calls[b].id = taggedVPCs[1].VpcId
       /\ \A d \in 1..(b - 1) : calls[d].op # "DeleteVpc"

\* C10: when the listing of the load balancers fails, the pass returns an
\* error and issues no DescribeTags and no DeleteLoadBalancer call.
C10_ListingFailureAborts ==
  (family = "elb" /\ calls # <<>> /\ ~calls[1].ok) =>
    /\ pc = "done"
    /\ ret = "error"
    /\ \A c \in 1..Len(calls) :
         calls[c].op \notin {"DescribeTags", "DeleteLoadBalancer"}

\* A live pass whose listing failed while the provider held a load balancer
\* whose tag matches and whose TTL has elapsed.
C10_Witness ==
  /\ family = "elb"
  /\ ~dryRun
  /\ calls # <<>>
  /\ ~calls[1].ok
  /\ \E k \in 1..Len(lbCloud) :
       TaggedFrom(<<>>, ListedLoadBalancers[k], lbCloud[k].Tags, tagName)
         # <<>>
       /\ CheckIfExpired(lbCloud[k].CreatedTime, Atoi(tagName).val, now)

\* C11: a container pass whose DescribeVpcs call failed ends with an
\* error, so that its caller can tell the failure from a pass that found
\* no container.
C11_DescribeVpcsFailurePropagated ==
  ( /\ family = "vpc"
    /\ pc = "done"
    /\ ~calls[1].ok ) => ret = "error"

\* The TTL tag of a resource is its tag named tagName.
HasTtlTag(tags) == \E k \in 1..Len(tags) : tags[k].Key = tagName

\* Every tag named tagName (there is one at least) has a value that is not
\* an integer.
TtlUnparsable(tags) ==
  /\ HasTtlTag(tags)
  /\ \A k \in 1..Len(tags) : tags[k].Key = tagName => ~Atoi(tags[k].Value).ok

\* Every tag named tagName (there is one at least) has an integer value.
TtlValid(tags) ==
  /\ HasTtlTag(tags)
  /\ \A k \in 1..Len(tags) : tags[k].Key = tagName => Atoi(tags[k].Value).ok

\* The load balancer m is in listTaggedLoadBalancers' result so far.
LbListed(m) == \E k \in 1..Len(lbs) : lbs[k].Arn = m

\* listTaggedLoadBalancers has returned its list.
LbListingReturned ==
  family = "elb" /\ pc \in {"CheckIfExpired", "DeleteLoadBalancer", "done"}
                 /\ ret # "error"

\* C12: a load balancer whose TTL tag value is not an integer is not in
\* listTaggedLoadBalancers' result and gets no DeleteLoadBalancer call, and
\* the pass goes on: every other load balancer whose tags were read and
\* whose TTL tag is valid is in the returned list, and the pass that listed
\* the load balancers returns nil.
C12_UnparsableTtlSkipped ==
  family = "elb" =>
    \A u \in 1..Len(lbCloud) :
      TtlUnparsable(lbCloud[u].Tags) =>
        /\ ~LbListed(u)
        /\ CallsOn("DeleteLoadBalancer", u) = {}
        /\ LbListingReturned =>
             \A m \in 1..Len(lbCloud) :
               ( /\ TtlValid(lbCloud[m].Tags)
                 /\ \E c \in CallsOn("DescribeTags", m) : calls[c].ok )
               => LbListed(m)
        /\ (pc = "done" /\ calls[1].ok) => ret = "nil"

\* The tags of a container that listTaggedVPC reads as its TTL: a "ttl"
\* key, whatever its case.  There is one at least and none has an integer
\* value.
VpcTtlUnparsable(tags) ==
  /\ \E k \in 1..Len(tags) : EqualFold(tags[k].Key, StrTtl)
  /\ \A k \in 1..Len(tags) :
       EqualFold(tags[k].Key, StrTtl) => ~Atoi(tags[k].Value).ok

\* The container v is in listTaggedVPC's result so far.
VpcListed(v) == \E k \in 1..Len(taggedVPCs) : taggedVPCs[k].VpcId = v

\* C13: a container whose TTL tag value is not an integer is skipped: it is
\* not in listTaggedVPC's result and no delete call is issued for it or for
\* one of its sub-resources.  Stated for the containers that carry the tag
\* named tagName, the ones the tag-key filter of getVPCs asks for.
C13_UnparsableVpcTtlSkipped ==
  family = "vpc" =>
    \A v \in 1..Len(vpcCloud) :
      (HasTtlTag(vpcCloud[v].Tags) /\ VpcTtlUnparsable(vpcCloud[v].Tags)) =>
        /\ ~VpcListed(v)
        /\ VpcDeletesOn(v) = {}

\* The marker tag of a container is its tag named tagName: its value is
\* empty.
EmptyMarker(tags) ==
  \E k \in 1..Len(tags) : tags[k].Key = tagName /\ tags[k].Value = <<>>

\* C14: a container whose marker tag has an empty value is skipped: it is
\* not in listTaggedVPC's result and no delete call is issued for it or for
\* one of its sub-resources.
C14_EmptyMarkerSkipped ==
  family = "vpc" =>
    \A v \in 1..Len(vpcCloud) :
      EmptyMarker(vpcCloud[v].Tags) =>
        /\ ~VpcListed(v)
        /\ VpcDeletesOn(v) = {}

\* C15: getCompleteVpc is a join barrier.  Wherever the pass is outside
\* getCompleteVpc, at the append of the record and at every delete call
\* after it, no task is running; and once a record is appended each of the
\* four tasks of the last getCompleteVpc has got its answer.
C15_JoinBarrier ==
  (family = "vpc" /\ pc # "getCompleteVpc") =>
    /\ running = {}
    /\ taggedVPCs # <<>> =>
         \A c \in 1..Len(Categories) : answered[c] # "none"

\* The four tasks of a getCompleteVpc are in flight at once, after an
\* earlier getCompleteVpc has returned and its record was appended.
C15_Witness ==
  /\ family = "vpc"
  /\ pc = "getCompleteVpc"
  /\ Cardinality(running) = Len(Categories)
  /\ taggedVPCs # <<>>

\* The categories whose query failed in the last getCompleteVpc.
FailedCategories == {c \in 1..Len(Categories) : answered[c] = "failed"}

\* In the last getCompleteVpc every task has answered and the query of
\* exactly one failed.
OneTaskFailed ==
  /\ \A c \in 1..Len(Categories) : answered[c] # "none"
  /\ Cardinality(FailedCategories) = 1

\* The record holds what the provider holds in the categories whose query
\* answered, and nothing in the category whose query failed.
ResolvedButFailed(vpc) ==
  \A c \in 1..Len(Categories) :
    Field(vpc, c) = IF c \in FailedCategories THEN <<>>
                    ELSE CloudMembers(vpc.VpcId, c)

\* C16: when the query of exactly one of the four tasks of getCompleteVpc
\* fails, the record holds the three other categories and nothing in the
\* failed one, the join is released, and the container goes on: its record
\* is appended to listTaggedVPC's list and a live pass that runs to its end
\* issues DeleteVpc for it.
C16_OneTaskFails ==
  (family = "vpc" /\ OneTaskFailed) =>
    IF pc = "getCompleteVpc"
    THEN /\ ResolvedButFailed(taggedVpc)
         /\ WaitReturns(launched, running)
    ELSE /\ taggedVPCs # <<>>
         /\ ResolvedButFailed(taggedVPCs[Len(taggedVPCs)])
         /\ (pc = "done" /\ ~dryRun) =>
              CallsOn("DeleteVpc", taggedVPCs[Len(taggedVPCs)].VpcId) # {}

\* A live pass has ended; in the last getCompleteVpc, for a container that
\* owns sub-resources, exactly one query failed.
C16_Witness ==
  /\ family = "vpc"
  /\ pc = "done"
  /\ ~dryRun
  /\ OneTaskFailed
  /\ taggedVPCs # <<>>
  /\ vpcCloud[taggedVPCs[Len(taggedVPCs)].VpcId].Members > 0

\* The DescribeTags call for load balancer m was issued and failed.
DescribeTagsFailed(m) ==
  \E c \in CallsOn("DescribeTags", m) : ~calls[c].ok

\* C17: when DescribeTags fails for one load balancer among several, that
\* one is skipped and its siblings are processed: once the listing is over
\* it has not ended on an error, every other load balancer has had its tags
\* read, and each of them whose DescribeTags call answered and whose TTL
\* tag is valid is in the result.
C17_DescribeTagsFailureSkipped ==
  ( /\ family = "elb"
    /\ pc \in {"CheckIfExpired", "DeleteLoadBalancer", "done"}
    /\ calls[1].ok ) =>
    \A f \in 1..Len(lbCloud) :
      DescribeTagsFailed(f) =>
        /\ ret # "error"
        /\ ~LbListed(f)
        /\ \A m \in 1..Len(lbCloud) :
             m # f =>
               /\ CallsOn("DescribeTags", m) # {}
               /\ (~DescribeTagsFailed(m) /\ TtlValid(lbCloud[m].Tags))
                  => LbListed(m)

\* C18: deleteVPC in live mode never reads its list out of range: for
\* every non-empty list and whichever DeleteVpc calls fail, it runs to its
\* end and the pass returns nil.
C18_DeleteVpcNeverFaults ==
  /\ family = "vpc" => ret # "panic"
  /\ VpcLivePassDone => ret = "nil"

\* The entries of listTaggedVPC's result for container v.
EntriesFor(v) == {k \in 1..Len(taggedVPCs) : taggedVPCs[k].VpcId = v}

\* The record has the TTL of every tag of the container that listTaggedVPC
\* reads as a TTL and whose value is an integer.
ReflectsTtl(vpc, tags) ==
  \A k \in 1..Len(tags) :
    (EqualFold(tags[k].Key, StrTtl) /\ Atoi(tags[k].Value).ok)
    => vpc.TTL = Atoi(tags[k].Value).val

\* C19: listTaggedVPC's list holds each container at most once, however
\* many tags it carries, and each record has the TTL of the container's TTL
\* tag, wherever that tag stands among the tags.  Stated for the containers
\* that carry the tag named tagName, the ones the tag-key filter of getVPCs
\* asks for.
C19_ListedOnceWithTtl ==
  family = "vpc" =>
    \A v \in 1..Len(vpcCloud) :
      HasTtlTag(vpcCloud[v].Tags) =>
        /\ Cardinality(EntriesFor(v)) <= 1
        /\ \A k \in EntriesFor(v) :
             ReflectsTtl(taggedVPCs[k], vpcCloud[v].Tags)

\* The positions in the log of TagVPCsForDeletion's tagging calls: the
\* log starts with the DescribeVpcs call of GetVpcsIdsByClusterNameTag.
TaggingCalls == 2..Len(calls)

\* C20: TagVPCsForDeletion tags security groups, gateways, subnets and
\* route tables in that order, one call each; a failed tagging call is the
\* last one and its error is returned; nil is returned only after four
\* tagging calls that all succeeded.
C20_TaggingOrder ==
  family = "tag" =>
    /\ Len(calls) <= 1 + Len(Categories)
    /\ \A c \in TaggingCalls : calls[c].op = TagOp(c - 1)
    /\ \A c \in TaggingCalls : ~calls[c].ok => c = Len(calls)
    /\ \A c \in TaggingCalls : ~calls[c].ok => (pc = "done" /\ ret = "error")
    /\ ret = "error" => \E c \in TaggingCalls : ~calls[c].ok
    /\ ret = "nil" =>
         /\ Len(calls) = 1 + Len(Categories)
         /\ \A c \in TaggingCalls : calls[c].ok

\* TagVPCsForDeletion has returned the error of its second tagging call,
\* for a cluster that has a container.
C20_Witness ==
  /\ family = "tag"
  /\ pc = "done"
  /\ ret = "error"
  /\ vpcsIds # <<>>
  /\ Len(calls) = 3
  /\ calls[2].ok
  /\ ~calls[3].ok

====
